---- MODULE Spec2Model ----
(***************************************************************************)
(* NEXO event matching core (matching_algorithm.py): the compatibility     *)
(* scorer, the three-pass match generator find_matches, the greedy         *)
(* first-fit scheduler create_schedule, the statistics aggregator and the  *)
(* CSV export, run on rosters taken from the reference data set            *)
(* (nexo_data.py), with the weight handling of the application (app.py).   *)
(*                                                                         *)
(* Identifiers 'buyer_007', 'seller_003', 'slot_012' are held as the       *)
(* numbers 7, 3, 12.  Python floats are held as exact integers: a          *)
(* sub-score in [0,1] is a multiple of 1/Unit, a weight is an integer over *)
(* the denominator weights.den, and a compatibility_score v stands for     *)
(* v / (10 * Unit) percent.  Where the float sum of the code tells apart   *)
(* scores that are equal as exact numbers (on the whole reference data,    *)
(* under the default weights) the sorts use the table FloatUlps.           *)
(*                                                                         *)
(* Spec       find_matches, create_schedule, statistics and export on      *)
(*            small rosters and slot lists of the caller's choosing        *)
(* SpecRerun  Spec with create_schedule run again on its own matches       *)
(* SpecRef    the application's flow on the whole reference data           *)
(* SpecScore  the scorer alone, on tag lists and weights of the caller's   *)
(*            choosing                                                     *)
(* SpecForeign  create_schedule and export given buyer and seller lists    *)
(*            that lack a buyer or seller of the matches                   *)
(* SpecTwice  two find_matches invocations on one matcher, interleaved     *)
(* SpecReslot Spec's two stages with create_schedule run again on its own  *)
(*            matches with another slot list                               *)
(***************************************************************************)
EXTENDS Integers, Sequences, FiniteSets, TLC

\* ---------------------------------------------------------------- bounds
MaxBuyers == 2
MaxSellers == 6
MaxPairs == 6
MaxSlots == 3

\* how often create_schedule is run again on the same matches
MaxReruns == 1

\* the largest weight a caller supplies: MaxSlider steps of 0.05 on a slider
\* of the application, MaxSlider whole units in a direct assignment
MaxSlider == 1

\* the longest interest list and product list handed to the scorer directly
MaxTags == 2

\* the most buyer-seller pairs of the rosters two find_matches invocations
\* are run on together
MaxPairsTwice == 4

\* -------------------------------------------------------- reference data
NEXO_BUYERS ==
    << [id |-> 1, name |-> "Marcos Aguade", company |-> "Fitness Group",
        investment_amount |-> 140000000, locations |-> 1, facility_type |-> "Gym Chain",
        interests |-> <<"Equipment", "Technology", "Supplements">>,
        selected_sellers |-> {1, 2, 3, 4, 5}],
       [id |-> 2, name |-> "Guillermo Mazzoni", company |-> "BIGG",
        investment_amount |-> 200000000, locations |-> 1, facility_type |-> "Fitness Chain",
        interests |-> <<"Equipment", "Software", "Nutrition">>,
        selected_sellers |-> {2, 3, 6, 7, 8}],
       [id |-> 3, name |-> "Celso Guimaraes", company |-> "Smart Fit",
        investment_amount |-> 50000000, locations |-> 7, facility_type |-> "Gym Chain",
        interests |-> <<"Equipment", "Technology", "Wellness">>,
        selected_sellers |-> {1, 4, 5, 9, 10}],
       [id |-> 4, name |-> "Ricardo Martinez", company |-> "Fitness Evolution",
        investment_amount |-> 25000000, locations |-> 3, facility_type |-> "Boutique Studio",
        interests |-> <<"Equipment", "Supplements", "Wellness">>,
        selected_sellers |-> {4, 6, 7, 11, 1}],
       [id |-> 5, name |-> "Ana Silva", company |-> "FitLife Centers",
        investment_amount |-> 15000000, locations |-> 5, facility_type |-> "Wellness Center",
        interests |-> <<"Wellness", "Nutrition", "Technology">>,
        selected_sellers |-> {5, 8, 9, 2, 3}],
       [id |-> 6, name |-> "Carlos Rodriguez", company |-> "PowerGym",
        investment_amount |-> 10000000, locations |-> 2, facility_type |-> "Gym Chain",
        interests |-> <<"Equipment", "Supplements">>,
        selected_sellers |-> {6, 10, 11, 1, 4}],
       [id |-> 7, name |-> "Maria Gonzalez", company |-> "Wellness Hub",
        investment_amount |-> 8000000, locations |-> 4, facility_type |-> "Wellness Center",
        interests |-> <<"Wellness", "Nutrition", "Software">>,
        selected_sellers |-> {7, 9, 11, 2, 5}],
       [id |-> 8, name |-> "Diego Morales", company |-> "FitZone",
        investment_amount |-> 5000000, locations |-> 1, facility_type |-> "Boutique Studio",
        interests |-> <<"Equipment", "Technology">>,
        selected_sellers |-> {8, 10, 1, 3, 6}],
       [id |-> 9, name |-> "Isabella Costa", company |-> "Active Life",
        investment_amount |-> 3000000, locations |-> 2, facility_type |-> "Gym Chain",
        interests |-> <<"Equipment", "Supplements">>,
        selected_sellers |-> {9, 11, 1, 4, 7}],
       [id |-> 10, name |-> "Fernando Lopez", company |-> "Strength Club",
        investment_amount |-> 2000000, locations |-> 1, facility_type |-> "Gym Chain",
        interests |-> <<"Equipment", "Nutrition">>,
        selected_sellers |-> {10, 11, 2, 5, 8}],
       [id |-> 11, name |-> "Patricia Ruiz", company |-> "FitCorp",
        investment_amount |-> 12000000, locations |-> 3, facility_type |-> "Corporate Wellness",
        interests |-> <<"Technology", "Wellness", "Software">>,
        selected_sellers |-> {11, 1, 3, 6, 9}],
       [id |-> 12, name |-> "Roberto Silva", company |-> "Elite Fitness",
        investment_amount |-> 18000000, locations |-> 6, facility_type |-> "Premium Gym",
        interests |-> <<"Equipment", "Technology", "Wellness">>,
        selected_sellers |-> {1, 2, 4, 7, 10}],
       [id |-> 13, name |-> "Lucia Martinez", company |-> "Wellness Pro",
        investment_amount |-> 6000000, locations |-> 2, facility_type |-> "Wellness Center",
        interests |-> <<"Wellness", "Nutrition", "Supplements">>,
        selected_sellers |-> {5, 6, 8, 11, 3}] >>

NEXO_SELLERS ==
    << [id |-> 1, name |-> "Charly Chagas", company |-> "Fitness Emporium",
        products |-> <<"Equipment", "Technology">>,
        selected_buyers |-> {1, 3, 4, 6, 8, 9, 11, 12}],
       [id |-> 2, name |-> "Ariel Osso", company |-> "Sonnos",
        products |-> <<"Technology", "Software">>,
        selected_buyers |-> {1, 2, 5, 7, 10, 12}],
       [id |-> 3, name |-> "Rafa Martos", company |-> "Intelinova Software",
        products |-> <<"Software", "Technology">>,
        selected_buyers |-> {1, 2, 5, 8, 11, 13}],
       [id |-> 4, name |-> "Carlos Mendez", company |-> "NutriMax",
        products |-> <<"Supplements", "Nutrition">>,
        selected_buyers |-> {1, 3, 4, 6, 9, 12}],
       [id |-> 5, name |-> "Sandra Torres", company |-> "WellTech Solutions",
        products |-> <<"Wellness", "Technology">>,
        selected_buyers |-> {1, 3, 5, 7, 10, 13}],
       [id |-> 6, name |-> "Miguel Santos", company |-> "FitEquip Pro",
        products |-> <<"Equipment", "Accessories">>,
        selected_buyers |-> {2, 4, 6, 8, 11, 13}],
       [id |-> 7, name |-> "Andrea Vega", company |-> "Wellness World",
        products |-> <<"Wellness", "Supplements">>,
        selected_buyers |-> {2, 4, 7, 9, 12}],
       [id |-> 8, name |-> "Jorge Ramirez", company |-> "TechFit",
        products |-> <<"Technology", "Software">>,
        selected_buyers |-> {2, 5, 8, 10, 13}],
       [id |-> 9, name |-> "Cristina Herrera", company |-> "NutriLife",
        products |-> <<"Nutrition", "Supplements">>,
        selected_buyers |-> {3, 5, 7, 9, 11}],
       [id |-> 10, name |-> "Pablo Gutierrez", company |-> "Strong Equipment",
        products |-> <<"Equipment", "Accessories">>,
        selected_buyers |-> {3, 6, 8, 10, 12}],
       [id |-> 11, name |-> "Elena Rodriguez", company |-> "Wellness Solutions",
        products |-> <<"Wellness", "Technology">>,
        selected_buyers |-> {4, 6, 7, 9, 10, 11, 13}] >>

TIME_SLOTS ==
    << [id |-> 1, date |-> "2023-05-18", time |-> "09:00", duration |-> 15],
       [id |-> 2, date |-> "2023-05-18", time |-> "09:15", duration |-> 15],
       [id |-> 3, date |-> "2023-05-18", time |-> "09:30", duration |-> 15],
       [id |-> 4, date |-> "2023-05-18", time |-> "09:45", duration |-> 15],
       [id |-> 5, date |-> "2023-05-18", time |-> "10:00", duration |-> 15],
       [id |-> 6, date |-> "2023-05-18", time |-> "10:15", duration |-> 15],
       [id |-> 7, date |-> "2023-05-18", time |-> "10:30", duration |-> 15],
       [id |-> 8, date |-> "2023-05-18", time |-> "10:45", duration |-> 15],
       [id |-> 9, date |-> "2023-05-18", time |-> "11:00", duration |-> 15],
       [id |-> 10, date |-> "2023-05-18", time |-> "11:15", duration |-> 15],
       [id |-> 11, date |-> "2023-05-18", time |-> "11:30", duration |-> 15],
       [id |-> 12, date |-> "2023-05-18", time |-> "11:45", duration |-> 15],
       [id |-> 13, date |-> "2023-05-18", time |-> "14:00", duration |-> 15],
       [id |-> 14, date |-> "2023-05-18", time |-> "14:15", duration |-> 15],
       [id |-> 15, date |-> "2023-05-18", time |-> "14:30", duration |-> 15],
       [id |-> 16, date |-> "2023-05-19", time |-> "09:00", duration |-> 15],
       [id |-> 17, date |-> "2023-05-19", time |-> "09:15", duration |-> 15],
       [id |-> 18, date |-> "2023-05-19", time |-> "09:30", duration |-> 15],
       [id |-> 19, date |-> "2023-05-19", time |-> "09:45", duration |-> 15],
       [id |-> 20, date |-> "2023-05-19", time |-> "10:00", duration |-> 15],
       [id |-> 21, date |-> "2023-05-19", time |-> "10:15", duration |-> 15],
       [id |-> 22, date |-> "2023-05-19", time |-> "10:30", duration |-> 15],
       [id |-> 23, date |-> "2023-05-19", time |-> "10:45", duration |-> 15],
       [id |-> 24, date |-> "2023-05-19", time |-> "11:00", duration |-> 15],
       [id |-> 25, date |-> "2023-05-19", time |-> "11:15", duration |-> 15],
       [id |-> 26, date |-> "2023-05-19", time |-> "11:30", duration |-> 15],
       [id |-> 27, date |-> "2023-05-19", time |-> "11:45", duration |-> 15],
       [id |-> 28, date |-> "2023-05-19", time |-> "14:00", duration |-> 15],
       [id |-> 29, date |-> "2023-05-19", time |-> "14:15", duration |-> 15],
       [id |-> 30, date |-> "2023-05-19", time |-> "14:30", duration |-> 15] >>

\* ------------------------------------------------------------------ state
VARIABLES
    pc,                 \* where the caller of the matcher stands
    buyers, sellers,    \* the rosters passed to find_matches
    all_matches,        \* find_matches: the list being built
    buyer_meetings,     \* find_matches: buyer id -> matches of that buyer
    idx,                \* position of the running loop (seller, buyer or match)
    error,              \* the exception that left the running call, if any
    matches,            \* the Match objects returned by find_matches
    time_slots,         \* the slot list passed to create_schedule
    sorted_matches,     \* create_schedule: positions of `matches`, in processing order
    scheduled_meetings, \* create_schedule: the meeting list
    buyer_schedule,     \* create_schedule: buyer id -> slot ids held
    seller_schedule,    \* create_schedule: seller id -> slot ids held
    stats,              \* the record returned by get_matching_statistics
    weights,            \* the matcher's compatibility_weights
    scored,             \* the last direct call of the scorer: arguments and result
    earlier,            \* the meeting lists returned by earlier create_schedule runs
    csv,                \* the value returned by export_schedule_csv
    roster,             \* the buyer and seller lists handed to create_schedule
    log,                \* the names create_schedule printed, one pair per meeting
    frame,              \* the locals of each of two find_matches invocations under way
    set_order           \* the order in which this process iterates the ids of a set

\* ------------------------------------------------------------- the scorer
\* sub-scores are integer multiples of 1/Unit (halves, thirds, fifths, ...)
Unit == 2 * 2 * 3 * 5

\* a quota of one more meeting per buyer: six
QuotaOfSix == 5 + 1

\* the quota of meetings per buyer, the literal 5 of find_matches
Quota == 5

\* the elements of a list: set(list), and the test `x in list`
Range(seq) == {seq[i] : i \in 1..Len(seq)}

Max2(a, b) == IF a >= b THEN a ELSE b

Min2(a, b) == IF a <= b THEN a ELSE b

\* the default weights 0.40, 0.25, 0.20, 0.10, 0.05; the five weights are held
\* as integers over the common denominator `den`
compatibility_weights ==
    [interest_alignment |-> 400, investment_factor |-> 250, company_size |-> 200,
     facility_type |-> 100, existing_client |-> 50, den |-> 1000]

\* the interest score taking the lengths of the lists for the sizes of the sets
interest_score_by_list_length(buyer, seller) ==
    LET buyer_interests == Range(buyer.interests)
        seller_products == Range(seller.products)
        interest_overlap == Cardinality(buyer_interests \cap seller_products)
        max_interests == Max2(Max2(Len(buyer.interests), Len(seller.products)), 1)
    IN  (interest_overlap * Unit) \div max_interests

\* lines 49-53: the share of common tags in the larger of the two tag sets
interest_score(buyer, seller) ==
    LET buyer_interests == Range(buyer.interests)
        seller_products == Range(seller.products)
        interest_overlap == Cardinality(buyer_interests \cap seller_products)
        max_interests == Max2(Max2(Cardinality(buyer_interests),
                                   Cardinality(seller_products)), 1)
    IN  (interest_overlap * Unit) \div max_interests

investment_score(buyer) ==
    LET investment == buyer.investment_amount
    IN  IF investment >= 100000000 THEN Unit
        ELSE IF investment >= 50000000 THEN (8 * Unit) \div 10
        ELSE IF investment >= 10000000 THEN (6 * Unit) \div 10
        ELSE IF investment >= 1000000 THEN (4 * Unit) \div 10
        ELSE (2 * Unit) \div 10

size_score(buyer) ==
    LET locations == buyer.locations
    IN  IF locations >= 5 THEN Unit
        ELSE IF locations >= 3 THEN (8 * Unit) \div 10
        ELSE IF locations >= 2 THEN (6 * Unit) \div 10
        ELSE (4 * Unit) \div 10

facility_score(buyer, seller) ==
    IF buyer.facility_type \in {"Gym Chain", "Premium Gym"}
    THEN (IF "Equipment" \in Range(seller.products) THEN Unit ELSE Unit \div 2)
    ELSE IF buyer.facility_type \in {"Wellness Center", "Corporate Wellness"}
    THEN (IF "Wellness" \in Range(seller.products) THEN Unit ELSE Unit \div 2)
    ELSE IF buyer.facility_type = "Boutique Studio"
    THEN (IF "Technology" \in Range(seller.products) THEN Unit ELSE Unit \div 2)
    ELSE Unit \div 2

\* the weighted sum returned as a fraction of 1, not as a percentage
calculate_compatibility_score_fraction(buyer, seller) ==
    LET w == weights
        score == interest_score(buyer, seller) * w.interest_alignment
                 + investment_score(buyer) * w.investment_factor
                 + size_score(buyer) * w.company_size
                 + facility_score(buyer, seller) * w.facility_type
                 + (Unit \div 2) * w.existing_client
    IN  Min2((score * 10) \div w.den, 1000 * Unit)

\* the weighted sum, times 100, capped at 100; with weights n / den the result
\* is held in units of 1 / (10 * Unit) percent, rounded down (scores computed
\* under one weight setting differ by at least 1000 / den of these units)
calculate_compatibility_score(buyer, seller) ==
    LET w == weights
        score == interest_score(buyer, seller) * w.interest_alignment
                 + investment_score(buyer) * w.investment_factor
                 + size_score(buyer) * w.company_size
                 + facility_score(buyer, seller) * w.facility_type
                 + (Unit \div 2) * w.existing_client
    IN  Min2((score * 1000) \div w.den, 1000 * Unit)

\* The score is a sum of five float products.  FloatUlps[b][s] is the distance,
\* in units of the last place, of the float computed for reference buyer b and
\* reference seller s under the default weights from the exact value rounded
\* to a float: pairs of one exact value can differ in the float, and the sorts
\* compare floats.  Over the reference pairs the floats are ordered as the
\* pairs <<exact value, distance>> are.
FloatUlps ==
    <<
       << 0,  0,  0,  0,  0,  0,  0,  0,  0,  0,  0>>,
       << 0,  0,  0,  0,  0,  0,  0,  0,  0,  0,  0>>,
       << 0,  2,  2,  0,  1,  1,  2,  2,  0,  1,  1>>,
       << 0,  1,  1, -1,  0, -1,  0,  1, -1, -1,  0>>,
       << 0,  0,  0,  0,  0,  0,  1,  0,  0,  0,  0>>,
       << 0,  0,  0,  1,  0,  0,  1,  0,  1,  0,  0>>,
       << 0,  0,  0,  0,  1,  0,  1,  0,  0,  0,  1>>,
       << 0,  2,  2,  2,  2,  1,  2,  2,  2,  1,  2>>,
       << 1,  1,  1,  1,  1,  1,  1,  1,  1,  1,  1>>,
       << 2,  2,  2,  1,  2,  2,  2,  2,  1,  2,  2>>,
       <<-1,  0,  0,  1,  0,  1,  0,  0,  1,  1,  0>>,
       << 0,  0,  0,  0,  0,  1,  0,  0,  0,  1,  0>>,
       << 1,  1,  1,  2,  0,  1,  1,  1,  2,  1,  0>> >>

\* the float a match's score stands for, as a sort key
FloatKey(buyer_id, seller_id, compatibility_score) ==
    <<compatibility_score,
      IF buyer_id \in DOMAIN FloatUlps /\ seller_id \in DOMAIN FloatUlps[buyer_id]
      THEN FloatUlps[buyer_id][seller_id] ELSE 0>>

\* --------------------------------------------------------------- helpers
\* Match.time_slot = None
NoSlot == 0

\* the orders in which a Python set holding the elements of S can be iterated
Orders(S) ==
    LET n == Cardinality(S)
        ascending == [i \in 1..n |->
                         CHOOSE x \in S : Cardinality({y \in S : y < x}) = i - 1]
    IN  {[i \in 1..n |-> ascending[p[i]]] : p \in Permutations(1..n)}

\* dict.get(key, [])
Get(d, key) == IF key \in DOMAIN d THEN d[key] ELSE <<>>

\* Python's order on tuples of numbers: lexicographic
TupleLess(a, b) ==
    \/ \E i \in 1..Min2(Len(a), Len(b)) :
          a[i] < b[i] /\ \A j \in 1..(i - 1) : a[j] = b[j]
    \/ Len(a) < Len(b) /\ \A j \in 1..Len(a) : a[j] = b[j]

\* the sort that, with reverse=True, sorts ascending and reverses the result:
\* elements of equal key come out in the reverse of their list order
SortedPositionsReversedTies(keys, reverse) ==
    LET n == Len(keys)
        Before(i, j) == IF reverse THEN TupleLess(keys[j], keys[i])
                        ELSE TupleLess(keys[i], keys[j])
        rank(i) == Cardinality({j \in 1..n :
                       Before(j, i) \/ (~Before(i, j) /\ ~Before(j, i) /\
                                        (IF reverse THEN j > i ELSE j < i))})
    IN  [r \in 1..n |-> CHOOSE i \in 1..n : rank(i) = r - 1]

\* list.sort / sorted on a list whose elements have the given key tuples: the
\* positions of the list in sorted order.  The sort is stable, also with
\* reverse=True: an element is preceded by the elements whose key orders
\* before its own and by the elements of equal key that stood in front of it.
SortedPositions(keys, reverse) ==
    LET n == Len(keys)
        Before(i, j) == IF reverse THEN TupleLess(keys[j], keys[i])
                        ELSE TupleLess(keys[i], keys[j])
        rank(i) == Cardinality({j \in 1..n :
                       Before(j, i) \/ (~Before(i, j) /\ j < i)})
    IN  [r \in 1..n |-> CHOOSE i \in 1..n : rank(i) = r - 1]

RECURSIVE Concat(_)
Concat(seqs) == IF seqs = <<>> THEN <<>> ELSE Head(seqs) \o Concat(Tail(seqs))

\* ------------------------------------------------------- match generation
\* the match made without its priority argument: the dataclass default 1
MatchDefaultPriority(buyer_id, seller_id, match_type, compatibility_score, priority) ==
    [buyer_id |-> buyer_id, seller_id |-> seller_id, match_type |-> match_type,
     compatibility_score |-> compatibility_score, meeting_scheduled |-> FALSE,
     time_slot |-> NoSlot, priority |-> 1]

\* lines 11-20: a Match as the passes construct it
Match(buyer_id, seller_id, match_type, compatibility_score, priority) ==
    [buyer_id |-> buyer_id, seller_id |-> seller_id, match_type |-> match_type,
     compatibility_score |-> compatibility_score, meeting_scheduled |-> FALSE,
     time_slot |-> NoSlot, priority |-> priority]

\* pass 1 as it would be were it held to the quota like passes 2 and 3
DoubleMatchesOfCapped(buyer, sellerSeq) ==
    LET buyer_selections == buyer.selected_sellers
        mutual == SelectSeq(sellerSeq, LAMBDA seller :
                      buyer.id \in seller.selected_buyers /\ seller.id \in buyer_selections)
    IN  [k \in 1..Min2(Len(mutual), Quota) |->
            Match(buyer.id, mutual[k].id, "double_match",
                  calculate_compatibility_score(buyer, mutual[k]), 1)]

\* pass 1, inner loop: the double matches of one buyer, in seller order
DoubleMatchesOf(buyer, sellerSeq) ==
    LET buyer_selections == buyer.selected_sellers
        mutual == SelectSeq(sellerSeq, LAMBDA seller :
                      buyer.id \in seller.selected_buyers /\ seller.id \in buyer_selections)
    IN  [k \in 1..Len(mutual) |->
            Match(buyer.id, mutual[k].id, "double_match",
                  calculate_compatibility_score(buyer, mutual[k]), 1)]

\* pass 2 without the check for a match already made in pass 1
SellerChoiceNoDedup(st, buyerSeq, seller, buyer_id) ==
    IF ~\E i \in 1..Len(buyerSeq) : buyerSeq[i].id = buyer_id THEN st
    ELSE LET buyer == buyerSeq[CHOOSE i \in 1..Len(buyerSeq) : buyerSeq[i].id = buyer_id]
         IN  IF Len(st.buyer_meetings[buyer_id]) < Quota
             THEN LET match == Match(buyer_id, seller.id, "seller_choice",
                                     calculate_compatibility_score(buyer, seller), 2)
                  IN  [all_matches |-> Append(st.all_matches, match),
                       buyer_meetings |-> [st.buyer_meetings EXCEPT
                                              ![buyer_id] = Append(@, match)]]
             ELSE st

\* pass 2, one iteration of the inner loop: seller meets buyer_id of its selection
SellerChoice(st, buyerSeq, seller, buyer_id) ==
    IF ~\E i \in 1..Len(buyerSeq) : buyerSeq[i].id = buyer_id THEN st
    ELSE LET buyer == buyerSeq[CHOOSE i \in 1..Len(buyerSeq) :
                                   /\ buyerSeq[i].id = buyer_id
                                   /\ \A j \in 1..(i - 1) : buyerSeq[j].id # buyer_id]
             existing_match == \E m \in Range(st.buyer_meetings[buyer_id]) :
                                   m.buyer_id = buyer_id /\ m.seller_id = seller.id
         IN  IF existing_match THEN st
             ELSE IF Len(st.buyer_meetings[buyer_id]) < Quota
             THEN LET match == Match(buyer_id, seller.id, "seller_choice",
                                     calculate_compatibility_score(buyer, seller), 2)
                  IN  [all_matches |-> Append(st.all_matches, match),
                       buyer_meetings |-> [st.buyer_meetings EXCEPT
                                              ![buyer_id] = Append(@, match)]]
             ELSE st

\* pass 2, the inner loop over one seller's selection set, iterated in `order`
RECURSIVE SellerChoices(_, _, _, _)
SellerChoices(st, buyerSeq, seller, order) ==
    IF order = <<>> THEN st
    ELSE SellerChoices(SellerChoice(st, buyerSeq, seller, Head(order)),
                       buyerSeq, seller, Tail(order))

\* pass 3 ranking every roster seller, matched with the buyer or not
AISuggestionsNoDedup(buyer, sellerSeq, held) ==
    LET current_meetings == Len(held)
    IN  IF current_meetings < Quota
        THEN LET needed_meetings == Quota - current_meetings
                 available_sellers == sellerSeq
                 compatibility_scores ==
                     [k \in 1..Len(available_sellers) |->
                         <<available_sellers[k],
                           calculate_compatibility_score(buyer, available_sellers[k])>>]
                 order == SortedPositions(
                              [k \in 1..Len(compatibility_scores) |->
                                  FloatKey(buyer.id, compatibility_scores[k][1].id,
                                           compatibility_scores[k][2])], TRUE)
                 ranked == [r \in 1..Len(order) |-> compatibility_scores[order[r]]]
                 top == SubSeq(ranked, 1, Min2(needed_meetings, Len(ranked)))
             IN  [k \in 1..Len(top) |->
                     Match(buyer.id, top[k][1].id, "ai_suggestion", top[k][2], 3)]
        ELSE <<>>

\* pass 3, for one buyer: the AI suggestions appended for it
AISuggestions(buyer, sellerSeq, held) ==
    LET current_meetings == Len(held)
    IN  IF current_meetings < Quota
        THEN LET needed_meetings == Quota - current_meetings
                 matched_seller_ids == {m.seller_id : m \in Range(held)}
                 available_sellers ==
                     SelectSeq(sellerSeq, LAMBDA s : s.id \notin matched_seller_ids)
                 compatibility_scores ==
                     [k \in 1..Len(available_sellers) |->
                         <<available_sellers[k],
                           calculate_compatibility_score(buyer, available_sellers[k])>>]
                 order == SortedPositions(
                              [k \in 1..Len(compatibility_scores) |->
                                  FloatKey(buyer.id, compatibility_scores[k][1].id,
                                           compatibility_scores[k][2])], TRUE)
                 ranked == [r \in 1..Len(order) |-> compatibility_scores[order[r]]]
                 top == SubSeq(ranked, 1, Min2(needed_meetings, Len(ranked)))
             IN  [k \in 1..Len(top) |->
                     Match(buyer.id, top[k][1].id, "ai_suggestion", top[k][2], 3)]
        ELSE <<>>

\* ------------------------------------------------------------ the machine
vars == <<pc, buyers, sellers, all_matches, buyer_meetings, idx, error, matches,
          time_slots, sorted_matches, scheduled_meetings, buyer_schedule,
          seller_schedule, stats, weights, scored, earlier, csv, roster, log,
          frame, set_order>>

genVars == <<buyers, sellers, all_matches, buyer_meetings>>

schedVars == <<time_slots, sorted_matches, scheduled_meetings, buyer_schedule,
               seller_schedule>>

otherVars == <<weights, scored, earlier, csv, roster, log, frame, set_order>>

NoError == "none"

NoStats == [none |-> TRUE]

NoScore == [none |-> TRUE]

NoCsv == <<>>

EmptyDict == [k \in {} |-> <<>>]

\* The rosters find_matches is called with: the first nb reference buyers and
\* the first ns reference sellers, with selection lists of the caller's
\* choosing.  Seller j selects the buyers ssel[j]; buyer i selects the sellers
\* bsel[i] among those that selected it.  With `stray` every buyer also selects
\* every seller that did not select it, and the first buyer and the first
\* seller also select an identifier absent from the roster.
BuyerRoster(nb, ns, bsel, ssel, stray) ==
    [i \in 1..nb |-> [NEXO_BUYERS[i] EXCEPT !.selected_sellers =
        bsel[i] \cup (IF stray
                      THEN {j \in 1..ns : i \notin ssel[j]}
                           \cup (IF i = 1 THEN {ns + 1} ELSE {})
                      ELSE {})]]

SellerRoster(nb, ns, ssel, stray) ==
    [j \in 1..ns |-> [NEXO_SELLERS[j] EXCEPT !.selected_buyers =
        ssel[j] \cup (IF stray /\ j = 1 THEN {nb + 1} ELSE {})]]

Init ==
    /\ pc = "idle"
    /\ buyers = <<>>
    /\ sellers = <<>>
    /\ all_matches = <<>>
    /\ buyer_meetings = EmptyDict
    /\ idx = 0
    /\ error = NoError
    /\ matches = <<>>
    /\ time_slots = <<>>
    /\ sorted_matches = <<>>
    /\ scheduled_meetings = <<>>
    /\ buyer_schedule = EmptyDict
    /\ seller_schedule = EmptyDict
    /\ stats = NoStats
    /\ weights = compatibility_weights
    /\ scored = NoScore
    /\ earlier = <<>>
    /\ csv = NoCsv
    /\ roster = [buyers |-> <<>>, sellers |-> <<>>]
    /\ log = <<>>
    /\ frame = <<>>
    /\ set_order = <<>>

\* lines 108-130: the dictionaries and pass 1 of find_matches(bs, ss)
Pass1(bs, ss) ==
    /\ buyers' = bs
    /\ sellers' = ss
    /\ buyer_meetings' = [id \in {buyers'[i].id : i \in 1..Len(buyers')} |->
                             DoubleMatchesOf(
                                 buyers'[CHOOSE i \in 1..Len(buyers') : buyers'[i].id = id],
                                 sellers')]
    /\ all_matches' = Concat([i \in 1..Len(buyers') |-> DoubleMatchesOf(buyers'[i], sellers')])
    /\ idx' = 1
    /\ pc' = IF Len(sellers') > 0 THEN "pass2"
             ELSE IF Len(buyers') > 0 THEN "pass3" ELSE "summary"
    /\ UNCHANGED <<error, matches, schedVars, stats>>
    /\ UNCHANGED otherVars

\* find_matches is called with rosters of the caller's choosing
FindMatchesPass1 ==
    /\ pc = "idle"
    /\ \E nb \in 0..MaxBuyers, ns \in 0..MaxSellers :
          /\ nb * ns <= MaxPairs
          /\ \E ssel \in [1..ns -> SUBSET (1..nb)], stray \in BOOLEAN :
                \E bsel \in [1..nb -> SUBSET (1..ns)] :
                    /\ \A i \in 1..nb : \A j \in bsel[i] : i \in ssel[j]
                    /\ Pass1(BuyerRoster(nb, ns, bsel, ssel, stray),
                             SellerRoster(nb, ns, ssel, stray))

\* app.py lines 410-414: find_matches is called with copies of the reference
\* buyers and sellers
FindMatchesReference ==
    /\ pc = "idle"
    /\ Pass1(NEXO_BUYERS, NEXO_SELLERS)

\* pass 2 visiting the sellers from the last of the list to the first
Pass2SellerLastFirst ==
    /\ pc = "pass2"
    /\ idx <= Len(sellers)
    /\ \E order \in Orders(sellers[Len(sellers) + 1 - idx].selected_buyers) :
          LET st == SellerChoices([all_matches |-> all_matches,
                                   buyer_meetings |-> buyer_meetings],
                                  buyers, sellers[Len(sellers) + 1 - idx], order)
          IN  /\ all_matches' = st.all_matches
              /\ buyer_meetings' = st.buyer_meetings
    /\ idx' = IF idx < Len(sellers) THEN idx + 1 ELSE 1
    /\ pc' = IF idx < Len(sellers) THEN "pass2"
             ELSE IF Len(buyers) > 0 THEN "pass3" ELSE "summary"
    /\ UNCHANGED <<buyers, sellers, error, matches, schedVars, stats>>
    /\ UNCHANGED otherVars

\* lines 134-159: one iteration of the loop over the sellers
Pass2Seller ==
    /\ pc = "pass2"
    /\ idx <= Len(sellers)
    /\ \E order \in Orders(sellers[idx].selected_buyers) :
          LET st == SellerChoices([all_matches |-> all_matches,
                                   buyer_meetings |-> buyer_meetings],
                                  buyers, sellers[idx], order)
          IN  /\ all_matches' = st.all_matches
              /\ buyer_meetings' = st.buyer_meetings
    /\ idx' = IF idx < Len(sellers) THEN idx + 1 ELSE 1
    /\ pc' = IF idx < Len(sellers) THEN "pass2"
             ELSE IF Len(buyers) > 0 THEN "pass3" ELSE "summary"
    /\ UNCHANGED <<buyers, sellers, error, matches, schedVars, stats>>
    /\ UNCHANGED otherVars

\* lines 163-194: one iteration of the loop over the buyers
Pass3Buyer ==
    /\ pc = "pass3"
    /\ idx <= Len(buyers)
    /\ LET buyer == buyers[idx]
           new == AISuggestions(buyer, sellers, buyer_meetings[buyer.id])
       IN  /\ all_matches' = all_matches \o new
           /\ buyer_meetings' = [buyer_meetings EXCEPT ![buyer.id] = @ \o new]
    /\ idx' = IF idx < Len(buyers) THEN idx + 1 ELSE 1
    /\ pc' = IF idx < Len(buyers) THEN "pass3" ELSE "summary"
    /\ UNCHANGED <<buyers, sellers, error, matches, schedVars, stats>>
    /\ UNCHANGED otherVars

\* lines 196-213: the summary divides by the number of matches, then returns
FindMatchesSummary ==
    /\ pc = "summary"
    /\ LET total == Len(all_matches)
       IN  IF total = 0
           THEN /\ error' = "ZeroDivisionError"
                /\ pc' = "raised"
                /\ UNCHANGED matches
           ELSE /\ matches' = all_matches
                /\ pc' = "matched"
                /\ UNCHANGED error
    /\ UNCHANGED <<genVars, idx, schedVars, stats>>
    /\ UNCHANGED otherVars

\* ------------------------------------------- two invocations of find_matches
\* set(seller.get('selected_buyers', [])) iterated in one process: the ids of
\* the set in the order this process gives them
IterationOrder(S, ranking) == SelectSeq(ranking, LAMBDA id : id \in S)

\* lines 134-159 run to the end: the loop over the sellers
RECURSIVE SellerLoop(_, _, _, _)
SellerLoop(st, buyerSeq, rest, ranking) ==
    IF rest = <<>> THEN st
    ELSE SellerLoop(SellerChoices(st, buyerSeq, Head(rest),
                                  IterationOrder(Head(rest).selected_buyers, ranking)),
                    buyerSeq, Tail(rest), ranking)

\* lines 163-194 run to the end: the loop over the buyers
RECURSIVE BuyerLoop(_, _, _)
BuyerLoop(st, rest, sellerSeq) ==
    IF rest = <<>> THEN st
    ELSE LET buyer == Head(rest)
             new == AISuggestions(buyer, sellerSeq, st.buyer_meetings[buyer.id])
         IN  BuyerLoop([all_matches |-> st.all_matches \o new,
                        buyer_meetings |-> [st.buyer_meetings EXCEPT ![buyer.id] = @ \o new]],
                       Tail(rest), sellerSeq)

\* lines 100-213: the match list of one find_matches run from its first line
\* to its last with nothing else running
find_matches(bs, ss, ranking) ==
    LET first == [all_matches |-> Concat([i \in 1..Len(bs) |-> DoubleMatchesOf(bs[i], ss)]),
                  buyer_meetings |-> [id \in {bs[i].id : i \in 1..Len(bs)} |->
                      DoubleMatchesOf(bs[CHOOSE i \in 1..Len(bs) : bs[i].id = id], ss)]]
    IN  BuyerLoop(SellerLoop(first, bs, ss, ranking), bs, ss).all_matches

\* the locals of an invocation that has not run its first line
NewFrame == [pc |-> "called", idx |-> 0, all_matches |-> <<>>,
             buyer_meetings |-> EmptyDict, returned |-> <<>>]

\* the per-buyer lists kept on the matcher, one dictionary for all invocations
MeetingsOnMatcher(run) == 1

\* line 109: buyer_meetings = {} is a local, each invocation has its own
MeetingsOf(run) == run

\* find_matches is called twice on one matcher with the same rosters; the two
\* invocations then advance in any order.  The rosters have few pairs, or one
\* buyer that selected no seller, up to MaxSellers sellers and no foreign id
FindMatchesTwice ==
    /\ pc = "idle"
    /\ \E nb \in 0..MaxBuyers, ns \in 0..MaxSellers, stray \in BOOLEAN :
          /\ nb * ns <= MaxPairs
          /\ \E ssel \in [1..ns -> SUBSET (1..nb)] :
                \E bsel \in [1..nb -> SUBSET (1..ns)] :
                    /\ \A i \in 1..nb : \A j \in bsel[i] : i \in ssel[j]
                    /\ \/ nb * ns <= MaxPairsTwice
                       \/ nb = 1 /\ ~stray /\ bsel[1] = {}
                    /\ buyers' = BuyerRoster(nb, ns, bsel, ssel, stray)
                    /\ sellers' = SellerRoster(nb, ns, ssel, stray)
          /\ set_order' \in Orders(1..(IF stray THEN nb + 1 ELSE nb))
    /\ frame' = <<NewFrame, NewFrame>>
    /\ pc' = "twice"
    /\ UNCHANGED <<all_matches, buyer_meetings, idx, error, matches, schedVars, stats>>
    /\ UNCHANGED <<weights, scored, earlier, csv, roster, log>>

\* what a step of an invocation leaves alone
FrameUnchanged ==
    /\ UNCHANGED <<pc, genVars, idx, error, matches, schedVars, stats>>
    /\ UNCHANGED <<weights, scored, earlier, csv, roster, log, set_order>>

\* lines 108-130 of one invocation
FramePass1 ==
    /\ pc = "twice"
    /\ \E run \in DOMAIN frame :
          /\ frame[run].pc = "called"
          /\ frame' = [frame EXCEPT
                ![run].all_matches =
                    Concat([i \in 1..Len(buyers) |-> DoubleMatchesOf(buyers[i], sellers)]),
                ![run].idx = 1,
                ![run].pc = IF Len(sellers) > 0 THEN "pass2"
                            ELSE IF Len(buyers) > 0 THEN "pass3" ELSE "summary",
                ![MeetingsOf(run)].buyer_meetings =
                    [id \in {buyers[i].id : i \in 1..Len(buyers)} |->
                        DoubleMatchesOf(
                            buyers[CHOOSE i \in 1..Len(buyers) : buyers[i].id = id],
                            sellers)]]
    /\ FrameUnchanged

\* lines 134-159 of one invocation: one iteration of the loop over the sellers
FramePass2Seller ==
    /\ pc = "twice"
    /\ \E run \in DOMAIN frame :
          /\ frame[run].pc = "pass2"
          /\ LET f == frame[run]
                 st == SellerChoices([all_matches |-> f.all_matches,
                                      buyer_meetings |-> frame[MeetingsOf(run)].buyer_meetings],
                                     buyers, sellers[f.idx],
                                     IterationOrder(sellers[f.idx].selected_buyers, set_order))
             IN  frame' = [frame EXCEPT
                     ![run].all_matches = st.all_matches,
                     ![run].idx = IF f.idx < Len(sellers) THEN f.idx + 1 ELSE 1,
                     ![run].pc = IF f.idx < Len(sellers) THEN "pass2"
                                 ELSE IF Len(buyers) > 0 THEN "pass3" ELSE "summary",
                     ![MeetingsOf(run)].buyer_meetings = st.buyer_meetings]
    /\ FrameUnchanged

\* lines 163-194 of one invocation: one iteration of the loop over the buyers
FramePass3Buyer ==
    /\ pc = "twice"
    /\ \E run \in DOMAIN frame :
          /\ frame[run].pc = "pass3"
          /\ LET f == frame[run]
                 buyer == buyers[f.idx]
                 new == AISuggestions(buyer, sellers,
                                      frame[MeetingsOf(run)].buyer_meetings[buyer.id])
             IN  frame' = [frame EXCEPT
                     ![run].all_matches = @ \o new,
                     ![run].idx = IF f.idx < Len(buyers) THEN f.idx + 1 ELSE 1,
                     ![run].pc = IF f.idx < Len(buyers) THEN "pass3" ELSE "summary",
                     ![MeetingsOf(run)].buyer_meetings = [@ EXCEPT ![buyer.id] = @ \o new]]
    /\ FrameUnchanged

\* lines 196-213 of one invocation: the summary, then the return
FrameSummary ==
    /\ pc = "twice"
    /\ \E run \in DOMAIN frame :
          /\ frame[run].pc = "summary"
          /\ frame' = [frame EXCEPT
                ![run].pc = IF Len(frame[run].all_matches) = 0 THEN "raised" ELSE "returned",
                ![run].returned = frame[run].all_matches]
    /\ FrameUnchanged


\* ------------------------------------------------------------- scheduling
\* the sort key with the score not negated: worst compatibility first
SortKeyScoreAscending(match) ==
    LET key == FloatKey(match.buyer_id, match.seller_id, match.compatibility_score)
    IN  <<match.priority, key[1], key[2]>>

\* line 223: the sort key of a match
SortKey(match) ==
    LET key == FloatKey(match.buyer_id, match.seller_id, match.compatibility_score)
    IN  <<match.priority, -key[1], -key[2]>>

\* the sort that puts the matches without a meeting first
SortedMatchesUnscheduledFirst(ms) ==
    SortedPositions([k \in 1..Len(ms) |->
        <<IF ms[k].meeting_scheduled THEN 1 ELSE 0>> \o SortKey(ms[k])], FALSE)

\* line 223: sorted(matches, key=...), as positions of the match list
SortedMatches(ms) == SortedPositions([k \in 1..Len(ms) |-> SortKey(ms[k])], FALSE)

\* the availability test looking at the buyer's schedule only
SlotFreeBuyerOnly(slot_id, buyer_id, seller_id, bsched, ssched) ==
    LET buyer_available == slot_id \notin Range(Get(bsched, buyer_id))
    IN  buyer_available

\* lines 236-239: is the slot free for both sides
SlotFree(slot_id, buyer_id, seller_id, bsched, ssched) ==
    LET buyer_available == slot_id \notin Range(Get(bsched, buyer_id))
        seller_available == slot_id \notin Range(Get(ssched, seller_id))
    IN  buyer_available /\ seller_available

\* the slot scan keeping the last free slot instead of stopping at the first
LastFreeSlot(slots, buyer_id, seller_id, bsched, ssched) ==
    LET free == {k \in 1..Len(slots) :
                    SlotFree(slots[k].id, buyer_id, seller_id, bsched, ssched)}
    IN  IF free = {} THEN 0 ELSE CHOOSE k \in free : \A j \in free : k >= j

\* lines 232-239: the position of the first slot free for both sides, 0 if none
FirstFreeSlot(slots, buyer_id, seller_id, bsched, ssched) ==
    LET free == {k \in 1..Len(slots) :
                    SlotFree(slots[k].id, buyer_id, seller_id, bsched, ssched)}
    IN  IF free = {} THEN 0 ELSE CHOOSE k \in free : \A j \in free : k <= j

\* the marking that sets the flag and forgets the slot
MarkScheduledFlagOnly(ms, m, slot_id) ==
    [ms EXCEPT ![m].meeting_scheduled = TRUE]

\* lines 264-266: the match object is marked in place
MarkScheduled(ms, m, slot_id) ==
    [ms EXCEPT ![m].meeting_scheduled = TRUE, ![m].time_slot = slot_id]

\* lines 268-270: next((x['name'] for x in people if x['id'] == id), 'Unknown')
FirstName(people, id) ==
    LET at == {i \in 1..Len(people) : people[i].id = id}
    IN  IF at = {} THEN "Unknown"
        ELSE people[CHOOSE i \in at : \A j \in at : i <= j].name

\* lines 268-273: the two names printed for a meeting
LoggedNames(lists, buyer_id, seller_id) ==
    [buyer_name |-> FirstName(lists.buyers, buyer_id),
     seller_name |-> FirstName(lists.sellers, seller_id)]

\* lines 241-251: the meeting dictionary
Meeting(match, time_slot) ==
    [buyer_id |-> match.buyer_id, seller_id |-> match.seller_id,
     time_slot |-> time_slot.id, date |-> time_slot.date, time |-> time_slot.time,
     duration |-> time_slot.duration, match_type |-> match.match_type,
     compatibility_score |-> match.compatibility_score, priority |-> match.priority]

\* create_schedule sorting the caller's match list in place (list.sort) and
\* walking it in its new order
CreateScheduleSortsInPlace(slots) ==
    /\ time_slots' = slots
    /\ scheduled_meetings' = <<>>
    /\ buyer_schedule' = EmptyDict
    /\ seller_schedule' = EmptyDict
    /\ matches' = [r \in 1..Len(matches) |-> matches[SortedMatches(matches)[r]]]
    /\ sorted_matches' = [r \in 1..Len(matches) |-> r]
    /\ idx' = 1
    /\ pc' = IF Len(matches) > 0 THEN "scheduling" ELSE "scheduled"
    /\ log' = <<>>
    /\ UNCHANGED <<genVars, error, stats, weights, scored, csv, frame, set_order>>

\* lines 218-223: create_schedule(matches, ..., slots) starts from an empty
\* meeting list and empty schedules and sorts the matches
CreateSchedule(slots) ==
    /\ time_slots' = slots
    /\ scheduled_meetings' = <<>>
    /\ buyer_schedule' = EmptyDict
    /\ seller_schedule' = EmptyDict
    /\ sorted_matches' = SortedMatches(matches)
    /\ idx' = 1
    /\ pc' = IF Len(matches) > 0 THEN "scheduling" ELSE "scheduled"
    /\ log' = <<>>
    /\ UNCHANGED <<genVars, error, matches, stats, weights, scored, csv, frame, set_order>>

\* create_schedule is called on the matcher's matches with a slot list of the
\* caller's choosing
CreateScheduleBegin ==
    /\ pc \in {"idle", "matched"}
    /\ \E n \in 0..MaxSlots : CreateSchedule(SubSeq(TIME_SLOTS, 1, n))
    /\ roster' = [buyers |-> buyers, sellers |-> sellers]
    /\ UNCHANGED earlier

\* app.py line 514: create_schedule is called with the reference TIME_SLOTS
CreateScheduleReference ==
    /\ pc \in {"idle", "matched"}
    /\ CreateSchedule(TIME_SLOTS)
    /\ roster' = [buyers |-> NEXO_BUYERS, sellers |-> NEXO_SELLERS]
    /\ UNCHANGED earlier

\* create_schedule is called once more on the same match objects and the same
\* slot list; the meeting list it returned before is kept for comparison
CreateScheduleAgain ==
    /\ pc = "scheduled"
    /\ Len(earlier) < MaxReruns
    /\ earlier' = Append(earlier, scheduled_meetings)
    /\ CreateSchedule(time_slots)
    /\ UNCHANGED roster

\* create_schedule is called once more, any number of times, on the same
\* match objects with a slot list of the caller's choosing
CreateScheduleReslot ==
    /\ pc = "scheduled"
    /\ \E n \in 0..MaxSlots : CreateSchedule(SubSeq(TIME_SLOTS, 1, n))
    /\ UNCHANGED <<earlier, roster>>

\* create_schedule is called on the matches of find_matches with all the
\* slots and with buyer and seller lists from which the caller has dropped
\* the first buyer, the first seller, both or neither
CreateScheduleForeign ==
    /\ pc = "matched"
    /\ \E dropBuyer \in BOOLEAN, dropSeller \in BOOLEAN :
          roster' = [buyers |-> IF dropBuyer THEN Tail(buyers) ELSE buyers,
                     sellers |-> IF dropSeller THEN Tail(sellers) ELSE sellers]
    /\ CreateSchedule(SubSeq(TIME_SLOTS, 1, MaxSlots))
    /\ UNCHANGED earlier

\* the loop body for slots that hold one meeting each: a slot used by any
\* meeting is free for nobody
ScheduleMatchOneMeetingPerSlot ==
    /\ pc = "scheduling"
    /\ idx <= Len(sorted_matches)
    /\ LET m == sorted_matches[idx]
           match == matches[m]
           buyer_id == match.buyer_id
           seller_id == match.seller_id
           used == {scheduled_meetings[i].time_slot : i \in 1..Len(scheduled_meetings)}
           open == {j \in 1..Len(time_slots) : time_slots[j].id \notin used}
           k == IF open = {} THEN 0 ELSE CHOOSE j \in open : \A i \in open : j <= i
       IN  IF k = 0
           THEN UNCHANGED <<scheduled_meetings, buyer_schedule, seller_schedule, matches,
                            log>>
           ELSE LET slot_id == time_slots[k].id
                IN  /\ scheduled_meetings' =
                           Append(scheduled_meetings, Meeting(match, time_slots[k]))
                    /\ buyer_schedule' =
                           [key \in DOMAIN buyer_schedule \cup {buyer_id} |->
                               IF key = buyer_id
                               THEN Append(Get(buyer_schedule, buyer_id), slot_id)
                               ELSE buyer_schedule[key]]
                    /\ seller_schedule' =
                           [key \in DOMAIN seller_schedule \cup {seller_id} |->
                               IF key = seller_id
                               THEN Append(Get(seller_schedule, seller_id), slot_id)
                               ELSE seller_schedule[key]]
                    /\ matches' = MarkScheduled(matches, m, slot_id)
                    /\ log' = Append(log, LoggedNames(roster, buyer_id, seller_id))
    /\ idx' = idx + 1
    /\ pc' = IF idx < Len(sorted_matches) THEN "scheduling" ELSE "scheduled"
    /\ UNCHANGED <<genVars, error, time_slots, sorted_matches, stats>>
    /\ UNCHANGED <<weights, scored, earlier, csv, roster, frame, set_order>>

\* lines 227-275: one iteration of the loop over the sorted matches
ScheduleMatch ==
    /\ pc = "scheduling"
    /\ idx <= Len(sorted_matches)
    /\ LET m == sorted_matches[idx]
           match == matches[m]
           buyer_id == match.buyer_id
           seller_id == match.seller_id
           k == FirstFreeSlot(time_slots, buyer_id, seller_id,
                              buyer_schedule, seller_schedule)
       IN  IF k = 0
           THEN UNCHANGED <<scheduled_meetings, buyer_schedule, seller_schedule, matches,
                            log>>
           ELSE LET slot_id == time_slots[k].id
                IN  /\ scheduled_meetings' =
                           Append(scheduled_meetings, Meeting(match, time_slots[k]))
                    /\ buyer_schedule' =
                           [key \in DOMAIN buyer_schedule \cup {buyer_id} |->
                               IF key = buyer_id
                               THEN Append(Get(buyer_schedule, buyer_id), slot_id)
                               ELSE buyer_schedule[key]]
                    /\ seller_schedule' =
                           [key \in DOMAIN seller_schedule \cup {seller_id} |->
                               IF key = seller_id
                               THEN Append(Get(seller_schedule, seller_id), slot_id)
                               ELSE seller_schedule[key]]
                    /\ matches' = MarkScheduled(matches, m, slot_id)
                    /\ log' = Append(log, LoggedNames(roster, buyer_id, seller_id))
    /\ idx' = idx + 1
    /\ pc' = IF idx < Len(sorted_matches) THEN "scheduling" ELSE "scheduled"
    /\ UNCHANGED <<genVars, error, time_slots, sorted_matches, stats>>
    /\ UNCHANGED <<weights, scored, earlier, csv, roster, frame, set_order>>

\* --------------------------------------------------------------- statistics
RECURSIVE SumScores(_)
SumScores(ms) ==
    IF ms = <<>> THEN 0 ELSE Head(ms).compatibility_score + SumScores(Tail(ms))

\* round(n / d, 2) of a percentage, held in hundredths of a percent
Round2(n, d) == (2 * 100 * n + d) \div (2 * d)

\* dict of counts: key -> number of list positions holding that key
CountBy(keys) ==
    [key \in Range(keys) |-> Cardinality({i \in 1..Len(keys) : keys[i] = key})]

\* the statistics with the efficiency cut down to a whole per cent
get_matching_statistics_whole_percent(ms, meetings) ==
    IF Len(ms) = 0 THEN [error |-> "No matches found"]
    ELSE LET scheduled_count == Len(meetings)
             total_matches == Len(ms)
         IN  [total_matches |-> total_matches,
              scheduled_meetings |-> scheduled_count,
              unscheduled_matches |-> total_matches - scheduled_count,
              scheduling_efficiency |->
                  IF total_matches > 0
                  THEN 100 * ((scheduled_count * 100) \div total_matches)
                  ELSE 0,
              average_compatibility |-> Round2(SumScores(ms), total_matches * 10 * Unit),
              match_type_distribution |-> CountBy([i \in 1..Len(ms) |-> ms[i].match_type]),
              priority_distribution |-> CountBy([i \in 1..Len(ms) |-> ms[i].priority]),
              unique_buyers_matched |-> Cardinality({ms[i].buyer_id : i \in 1..Len(ms)}),
              unique_sellers_matched |-> Cardinality({ms[i].seller_id : i \in 1..Len(ms)})]

\* lines 280-314: the record of statistics; percentages in hundredths
get_matching_statistics(ms, meetings) ==
    IF Len(ms) = 0 THEN [error |-> "No matches found"]
    ELSE LET scheduled_count == Len(meetings)
             total_matches == Len(ms)
         IN  [total_matches |-> total_matches,
              scheduled_meetings |-> scheduled_count,
              unscheduled_matches |-> total_matches - scheduled_count,
              scheduling_efficiency |->
                  IF total_matches > 0 THEN Round2(scheduled_count * 100, total_matches)
                  ELSE 0,
              average_compatibility |-> Round2(SumScores(ms), total_matches * 10 * Unit),
              match_type_distribution |-> CountBy([i \in 1..Len(ms) |-> ms[i].match_type]),
              priority_distribution |-> CountBy([i \in 1..Len(ms) |-> ms[i].priority]),
              unique_buyers_matched |-> Cardinality({ms[i].buyer_id : i \in 1..Len(ms)}),
              unique_sellers_matched |-> Cardinality({ms[i].seller_id : i \in 1..Len(ms)})]

\* get_matching_statistics is called on the matcher's matches and meetings
GetMatchingStatistics ==
    /\ pc \in {"idle", "scheduled"}
    /\ stats' = get_matching_statistics(matches, scheduled_meetings)
    /\ pc' = "reported"
    /\ UNCHANGED <<genVars, idx, error, matches, schedVars>>
    /\ UNCHANGED otherVars

\* ------------------------------------------------------------------ export
CsvHeader ==
    "Date,Time,Buyer,Buyer Company,Seller,Seller Company,Match Type,Compatibility Score,Priority"

\* line 339: match_type.replace('_', ' ').title(), on the types the matcher makes
TitleCase(match_type) ==
    CASE match_type = "double_match" -> "Double Match"
      [] match_type = "seller_choice" -> "Seller Choice"
      [] match_type = "ai_suggestion" -> "Ai Suggestion"

\* line 340: str(round(score, 1)); the score is rounded to tenths of a percent,
\* a score midway between two tenths going up
Round1Text(compatibility_score) ==
    LET tenths == (compatibility_score * 10 + 5 * Unit) \div (10 * Unit)
    IN  ToString(tenths \div 10) \o "." \o ToString(tenths % 10)

\* the lookup that yields an empty field for an identifier it does not find
LookUpEmptyField(people, id, field) ==
    LET at == {i \in 1..Len(people) : people[i].id = id}
    IN  IF at = {} THEN ""
        ELSE people[CHOOSE i \in at : \A j \in at : j <= i][field]

\* lines 322-323 and 329-337: {x['id']: x}.get(id, {}).get(field, 'Unknown');
\* of two entries with one id the dictionary keeps the later
LookUp(people, id, field) ==
    LET at == {i \in 1..Len(people) : people[i].id = id}
    IN  IF at = {} THEN "Unknown"
        ELSE people[CHOOSE i \in at : \A j \in at : j <= i][field]

\* lines 332-342: one row, its fields joined by commas
CsvRow(meeting, buyerSeq, sellerSeq) ==
    meeting.date \o "," \o meeting.time
    \o "," \o LookUp(buyerSeq, meeting.buyer_id, "name")
    \o "," \o LookUp(buyerSeq, meeting.buyer_id, "company")
    \o "," \o LookUp(sellerSeq, meeting.seller_id, "name")
    \o "," \o LookUp(sellerSeq, meeting.seller_id, "company")
    \o "," \o TitleCase(meeting.match_type)
    \o "," \o Round1Text(meeting.compatibility_score)
    \o "," \o ToString(meeting.priority)

\* the export that has no special case for the empty meeting list
export_schedule_csv_always_header(meetings, buyerSeq, sellerSeq) ==
    <<CsvHeader>> \o [k \in 1..Len(meetings) |-> CsvRow(meetings[k], buyerSeq, sellerSeq)]

\* lines 316-345: the text returned, held as the sequence of its lines (the
\* rows are joined by newlines, and no field of the data holds a newline)
export_schedule_csv(meetings, buyerSeq, sellerSeq) ==
    IF meetings = <<>> THEN <<"No meetings scheduled">>
    ELSE <<CsvHeader>>
         \o [k \in 1..Len(meetings) |-> CsvRow(meetings[k], buyerSeq, sellerSeq)]

\* app.py line 656: the schedule is exported against the reference rosters
ExportScheduleCsv ==
    /\ pc \in {"idle", "scheduled"}
    /\ csv' = export_schedule_csv(scheduled_meetings, NEXO_BUYERS, NEXO_SELLERS)
    /\ pc' = "exported"
    /\ UNCHANGED <<genVars, idx, error, matches, schedVars, stats>>
    /\ UNCHANGED <<weights, scored, earlier, roster, log, frame, set_order>>

\* export_schedule_csv is called with the lists create_schedule was given
ExportScheduleCsvForeign ==
    /\ pc = "scheduled"
    /\ csv' = export_schedule_csv(scheduled_meetings, roster.buyers, roster.sellers)
    /\ pc' = "exported"
    /\ UNCHANGED <<genVars, idx, error, matches, schedVars, stats>>
    /\ UNCHANGED <<weights, scored, earlier, roster, log, frame, set_order>>

\* ----------------------------------------------------------------- weights
\* app.py lines 372 and 398-407: each slider value is divided by the total of
\* the five; with a total of zero the matcher keeps its defaults.  sliders[k]
\* is the position of slider k in steps of 0.05, so weight k is
\* sliders[k] / total
NormalizedWeights(sliders) ==
    LET total_weight == sliders[1] + sliders[2] + sliders[3] + sliders[4] + sliders[5]
    IN  IF total_weight > 0
        THEN [interest_alignment |-> sliders[1], investment_factor |-> sliders[2],
              company_size |-> sliders[3], facility_type |-> sliders[4],
              existing_client |-> sliders[5], den |-> total_weight]
        ELSE compatibility_weights

\* app.py lines 395-407: a new matcher gets the weights of the five sliders
SetWeights ==
    /\ pc = "idle"
    /\ scored = NoScore
    /\ \E sliders \in [1..5 -> 0..MaxSlider] : weights' = NormalizedWeights(sliders)
    /\ UNCHANGED <<pc, genVars, idx, error, matches, schedVars, stats>>
    /\ UNCHANGED <<scored, earlier, csv, roster, log, frame, set_order>>

\* lines 36-42 and 47-96: compatibility_weights is a plain attribute the scorer
\* reads as it stands; a caller assigns five weights of its choosing (here
\* whole numbers) and the matcher keeps them as supplied
AssignWeights ==
    /\ pc = "idle"
    /\ scored = NoScore
    /\ \E supplied \in [1..5 -> 0..MaxSlider] :
          weights' = [interest_alignment |-> supplied[1],
                      investment_factor |-> supplied[2],
                      company_size |-> supplied[3],
                      facility_type |-> supplied[4],
                      existing_client |-> supplied[5], den |-> 1]
    /\ UNCHANGED <<pc, genVars, idx, error, matches, schedVars, stats>>
    /\ UNCHANGED <<scored, earlier, csv, roster, log, frame, set_order>>

\* the tags the facility rules look for
Tags == {"Equipment", "Wellness", "Technology"}

\* the tag lists handed to the scorer: any order, elements repeated or not
TagLists == UNION {[1..n -> Tags] : n \in 0..MaxTags}

\* the buyers handed to the scorer: a gym chain, a boutique studio, a wellness
\* centre and a facility type without a rule
ScoreBuyers == {1, 2, 4, 5}

\* calculate_compatibility_score is called on a buyer and a seller whose
\* interest and product lists are of the caller's choosing
Score ==
    /\ pc = "idle"
    /\ scored = NoScore
    /\ \E b \in ScoreBuyers, interests \in TagLists, products \in TagLists :
          LET buyer == [NEXO_BUYERS[b] EXCEPT !.interests = interests]
              seller == [NEXO_SELLERS[1] EXCEPT !.products = products]
          IN  scored' = [buyer |-> buyer, seller |-> seller,
                         score |-> calculate_compatibility_score(buyer, seller)]
    /\ UNCHANGED <<pc, genVars, idx, error, matches, schedVars, stats>>
    /\ UNCHANGED <<weights, earlier, csv, roster, log, frame, set_order>>

Next ==
    \/ FindMatchesPass1
    \/ Pass2Seller
    \/ Pass3Buyer
    \/ FindMatchesSummary
    \/ CreateScheduleBegin
    \/ ScheduleMatch
    \/ GetMatchingStatistics
    \/ ExportScheduleCsv

Spec == Init /\ [][Next]_vars

\* the application's flow on the reference data: the default weights, the
\* reference rosters and all the reference time slots
NextRef ==
    \/ FindMatchesReference
    \/ Pass2Seller
    \/ Pass3Buyer
    \/ FindMatchesSummary
    \/ CreateScheduleReference
    \/ ScheduleMatch
    \/ GetMatchingStatistics
    \/ ExportScheduleCsv
    \/ CreateScheduleAgain

SpecRef == Init /\ [][NextRef]_vars

\* the program with create_schedule run again on its own result
NextRerun ==
    \/ Next
    \/ CreateScheduleAgain

SpecRerun == Init /\ [][NextRerun]_vars

\* find_matches, then create_schedule and the export with buyer and seller
\* lists that lack identifiers the matches refer to
NextForeign ==
    \/ FindMatchesPass1
    \/ Pass2Seller
    \/ Pass3Buyer
    \/ FindMatchesSummary
    \/ CreateScheduleForeign
    \/ ScheduleMatch
    \/ ExportScheduleCsvForeign

SpecForeign == Init /\ [][NextForeign]_vars

\* the scorer on its own, under the weights the application gives it and
\* under weights assigned directly
NextTwice ==
    \/ FindMatchesTwice
    \/ FramePass1
    \/ FramePass2Seller
    \/ FramePass3Buyer
    \/ FrameSummary

SpecTwice == Init /\ [][NextTwice]_vars

NextReslot ==
    \/ FindMatchesPass1
    \/ Pass2Seller
    \/ Pass3Buyer
    \/ FindMatchesSummary
    \/ CreateScheduleBegin
    \/ ScheduleMatch
    \/ CreateScheduleReslot

SpecReslot == Init /\ [][NextReslot]_vars

NextScore ==
    \/ SetWeights
    \/ AssignWeights
    \/ Score

SpecScore == Init /\ [][NextScore]_vars

\* ------------------------------------------------------------------ claims
\* find_matches is not running: it has returned its list (held in `matches`),
\* or it was never called and `matches` is the matcher's initial empty list
FindMatchesReturned == pc \in {"matched", "scheduling", "scheduled", "reported"}

RosterBuyerIds == {buyers[i].id : i \in 1..Len(buyers)}

RosterSellerIds == {sellers[j].id : j \in 1..Len(sellers)}

MatchesOf(ms, buyer_id) == {i \in 1..Len(ms) : ms[i].buyer_id = buyer_id}

PairMatches(ms, buyer_id, seller_id) ==
    {i \in 1..Len(ms) : ms[i].buyer_id = buyer_id /\ ms[i].seller_id = seller_id}

\* C1: after find_matches returns on a roster of at least 5 sellers, every
\* roster buyer holds exactly 5 matches.  (Stated as claimed; pass 1 is not
\* capped, so a buyer mutually selected with 6 sellers holds 6.)
C1_ExactlyFivePerBuyer ==
    (FindMatchesReturned /\ Len(sellers) >= 5) =>
        \A b \in RosterBuyerIds : Cardinality(MatchesOf(matches, b)) = 5

\* C2: in the list returned by find_matches no (buyer_id, seller_id) pair
\* occurs in more than one match, whatever the match types.
C2_NoDuplicatePair ==
    FindMatchesReturned =>
        \A i, j \in 1..Len(matches) :
            (matches[i].buyer_id = matches[j].buyer_id
             /\ matches[i].seller_id = matches[j].seller_id) => i = j

\* a returned list in which both dedup checks had a pair to skip: a buyer holds
\* a double match with a seller that selected it, a seller choice and an AI suggestion
C2_Witness ==
    /\ pc = "matched"
    /\ \E i, j, k \in 1..Len(matches) :
          /\ matches[i].buyer_id = matches[j].buyer_id
          /\ matches[j].buyer_id = matches[k].buyer_id
          /\ matches[i].match_type = "double_match"
          /\ matches[j].match_type = "seller_choice"
          /\ matches[k].match_type = "ai_suggestion"

C8_EmptyRosterReturnsEmpty ==
    (pc \in {"matched", "raised"} /\ (Len(buyers) = 0 \/ Len(sellers) = 0)) =>
        (pc = "matched" /\ error = NoError /\ matches = <<>>)

\* C10: on a roster of k sellers, 1 <= k < 5, and at least one buyer,
\* find_matches raises nothing and every buyer ends with exactly k matches,
\* one with each seller.
C10_SmallPoolOneMatchPerSeller ==
    (pc \notin {"idle", "pass2", "pass3", "summary"}
     /\ Len(sellers) >= 1 /\ Len(sellers) < 5 /\ Len(buyers) >= 1) =>
        /\ error = NoError
        /\ pc # "raised"
        /\ \A b \in RosterBuyerIds :
              /\ Cardinality(MatchesOf(matches, b)) = Len(sellers)
              /\ \A s \in RosterSellerIds :
                    Cardinality(PairMatches(matches, b, s)) = 1

\* find_matches returned on 4 sellers, and a buyer with no selection at all
\* was filled up by pass 3 alone
C10_Witness ==
    /\ pc = "matched"
    /\ Len(sellers) = 4
    /\ \E b \in RosterBuyerIds :
          /\ Cardinality(MatchesOf(matches, b)) = 4
          /\ \A i \in MatchesOf(matches, b) : matches[i].match_type = "ai_suggestion"

\* create_schedule is running or has returned
ScheduleStarted == pc \in {"scheduling", "scheduled", "reported"}

\* create_schedule has returned
ScheduleReturned == pc \in {"scheduled", "reported"}

\* the position in the slot list of the slot a meeting was given
SlotPos(meeting) ==
    CHOOSE k \in 1..Len(time_slots) : time_slots[k].id = meeting.time_slot

\* C4: at every step of create_schedule and in its result, two distinct
\* meetings in the same time slot have different buyers and different sellers.
C4_NoDoubleBooking ==
    \A i, j \in 1..Len(scheduled_meetings) :
        (i # j /\ scheduled_meetings[i].time_slot = scheduled_meetings[j].time_slot) =>
            /\ scheduled_meetings[i].buyer_id # scheduled_meetings[j].buyer_id
            /\ scheduled_meetings[i].seller_id # scheduled_meetings[j].seller_id

\* two meetings share a slot, and a third, whose seller is one of theirs and
\* whose buyer is the other's, was moved to a later slot
C4_Witness ==
    \E i, j, k \in 1..Len(scheduled_meetings) :
        /\ i # j
        /\ scheduled_meetings[i].time_slot = scheduled_meetings[j].time_slot
        /\ scheduled_meetings[k].seller_id = scheduled_meetings[i].seller_id
        /\ scheduled_meetings[k].buyer_id = scheduled_meetings[j].buyer_id
        /\ scheduled_meetings[k].time_slot # scheduled_meetings[i].time_slot

\* C5: after create_schedule on a freshly generated list, every meeting has
\* exactly one match with its buyer, seller, type, score and priority, that
\* match is marked scheduled with the meeting's slot, there are as many
\* meetings as scheduled matches, and an unscheduled match has no meeting.
C5_MeetingsAreScheduledMatches ==
    ScheduleReturned =>
        /\ \A i \in 1..Len(scheduled_meetings) :
              LET mt == scheduled_meetings[i]
                  same == {m \in 1..Len(matches) :
                              /\ matches[m].buyer_id = mt.buyer_id
                              /\ matches[m].seller_id = mt.seller_id
                              /\ matches[m].match_type = mt.match_type
                              /\ matches[m].compatibility_score = mt.compatibility_score
                              /\ matches[m].priority = mt.priority}
              IN  /\ Cardinality(same) = 1
                  /\ \A m \in same : /\ matches[m].meeting_scheduled
                                      /\ matches[m].time_slot = mt.time_slot
        /\ Len(scheduled_meetings) =
              Cardinality({m \in 1..Len(matches) : matches[m].meeting_scheduled})
        /\ \A m \in 1..Len(matches) :
              ~matches[m].meeting_scheduled =>
                  /\ matches[m].time_slot = NoSlot
                  /\ \A i \in 1..Len(scheduled_meetings) :
                        ~(/\ scheduled_meetings[i].buyer_id = matches[m].buyer_id
                          /\ scheduled_meetings[i].seller_id = matches[m].seller_id)

\* create_schedule returned with some matches placed and some left out
C5_Witness ==
    /\ pc = "scheduled"
    /\ Len(scheduled_meetings) >= 2
    /\ \E m \in 1..Len(matches) : ~matches[m].meeting_scheduled

\* C6: create_schedule takes the matches by priority ascending and, within a
\* priority, by score descending, equal keys in match-list order; so in the
\* meeting list priorities never decrease and, within a priority, scores
\* never increase.
C6_ProcessingOrder ==
    ScheduleStarted =>
        /\ Len(sorted_matches) = Len(matches)
        /\ {sorted_matches[p] : p \in 1..Len(sorted_matches)} = 1..Len(matches)
        /\ \A p, q \in 1..Len(sorted_matches) :
              p < q =>
                  LET a == matches[sorted_matches[p]]
                      b == matches[sorted_matches[q]]
                  IN  /\ a.priority <= b.priority
                      /\ a.priority = b.priority =>
                             a.compatibility_score >= b.compatibility_score
                      /\ (a.priority = b.priority
                          /\ a.compatibility_score = b.compatibility_score) =>
                             sorted_matches[p] < sorted_matches[q]
        /\ \A i, j \in 1..Len(scheduled_meetings) :
              i < j =>
                  /\ scheduled_meetings[i].priority <= scheduled_meetings[j].priority
                  /\ scheduled_meetings[i].priority = scheduled_meetings[j].priority =>
                         scheduled_meetings[i].compatibility_score
                             >= scheduled_meetings[j].compatibility_score

\* the meeting list holds all three priorities, two meetings of one priority
\* with different scores, and the sort moved a match in front of an earlier one
C6_Witness ==
    /\ pc = "scheduled"
    /\ {scheduled_meetings[i].priority : i \in 1..Len(scheduled_meetings)} = {1, 2, 3}
    /\ \E i, j \in 1..Len(scheduled_meetings) :
          /\ i < j
          /\ scheduled_meetings[i].priority = scheduled_meetings[j].priority
          /\ scheduled_meetings[i].compatibility_score
                 > scheduled_meetings[j].compatibility_score
    /\ \E p, q \in 1..Len(sorted_matches) :
          p < q /\ sorted_matches[p] > sorted_matches[q]

\* C7: create_schedule is first-fit: for a meeting in the slot at position k
\* of the slot list and every position j < k, a meeting placed earlier sits
\* in slot j with the same buyer or the same seller.
C7_FirstFit ==
    \A p \in 1..Len(scheduled_meetings) :
        \A j \in 1..(SlotPos(scheduled_meetings[p]) - 1) :
            \E q \in 1..(p - 1) :
                /\ scheduled_meetings[q].time_slot = time_slots[j].id
                /\ \/ scheduled_meetings[q].buyer_id = scheduled_meetings[p].buyer_id
                   \/ scheduled_meetings[q].seller_id = scheduled_meetings[p].seller_id

\* a meeting sits in the second slot because its seller, not its buyer, held
\* the first, and another meeting sits in the third slot
C7_Witness ==
    /\ \E p \in 1..Len(scheduled_meetings) :
          LET mt == scheduled_meetings[p]
              first == {q \in 1..(p - 1) :
                           scheduled_meetings[q].time_slot = time_slots[1].id}
          IN  /\ SlotPos(mt) = 2
              /\ \E q \in first : scheduled_meetings[q].seller_id = mt.seller_id
              /\ \A q \in first : scheduled_meetings[q].buyer_id # mt.buyer_id
    /\ \E p \in 1..Len(scheduled_meetings) : SlotPos(scheduled_meetings[p]) = 3

\* C9: get_matching_statistics on an empty match list returns a record of
\* the usual shape with total match count 0, scheduled count 0 and
\* efficiency 0.  (Stated as claimed; the code returns an error record.)
C9_EmptyStatsZeroValued ==
    (pc = "reported" /\ Len(matches) = 0) =>
        /\ {"total_matches", "scheduled_meetings", "unscheduled_matches",
            "scheduling_efficiency"} \subseteq DOMAIN stats
        /\ stats.total_matches = 0
        /\ stats.scheduled_meetings = 0
        /\ stats.scheduling_efficiency = 0

\* ------------------------------------------------------ the reference data
\* lines 198-200: the number of matches of one type, as the summary counts them
CountType(ms, match_type) ==
    Cardinality({k \in 1..Len(ms) : ms[k].match_type = match_type})

\* C11: on the reference buyers and sellers find_matches returns exactly 65
\* matches, 5 for each of the 13 buyers, and the numbers of double_match,
\* seller_choice and ai_suggestion matches add up to 65.
C11_ReferenceSixtyFiveMatches ==
    (pc = "matched" /\ buyers = NEXO_BUYERS /\ sellers = NEXO_SELLERS) =>
        /\ Len(matches) = 65
        /\ \A i \in 1..Len(NEXO_BUYERS) : Cardinality(MatchesOf(matches, NEXO_BUYERS[i].id)) = 5
        /\ CountType(matches, "double_match") + CountType(matches, "seller_choice")
               + CountType(matches, "ai_suggestion") = 65

C11_Witness ==
    /\ pc = "matched"
    /\ Len(buyers) = 13
    /\ Len(sellers) = 11
    /\ Len(matches) = 65

\* C12 as stated: on the reference matches and the 30 reference time slots
\* create_schedule places at most 30 meetings.
C12_AtMostThirtyMeetings ==
    (ScheduleReturned /\ Len(matches) = 65 /\ time_slots = TIME_SLOTS) =>
        Len(scheduled_meetings) <= 30

\* C12, amended: on the reference matches and the 30 reference time slots
\* create_schedule places a meeting for every one of the 65 matches (a slot
\* holds several meetings, one per buyer and per seller); no match remains
\* unscheduled, and the meetings never outnumber the matches.
C12_AllReferenceMatchesScheduled ==
    /\ (ScheduleStarted /\ time_slots = TIME_SLOTS) =>
           Len(scheduled_meetings) <= Len(matches)
    /\ (ScheduleReturned /\ Len(matches) = 65 /\ time_slots = TIME_SLOTS) =>
           /\ Len(scheduled_meetings) = 65
           /\ \A k \in 1..Len(matches) : matches[k].meeting_scheduled

C12_Witness ==
    /\ ScheduleReturned
    /\ Len(matches) = 65
    /\ time_slots = TIME_SLOTS
    /\ Len(scheduled_meetings) > 30
    /\ \E i \in 1..Len(scheduled_meetings) : scheduled_meetings[i].time_slot > 5

\* ------------------------------------------------- one mutual pair of four
\* two buyers A, B and two sellers X, Y; A selects X, X selects A, and there
\* is no other selection
OneMutualPair ==
    /\ Len(buyers) = 2
    /\ Len(sellers) = 2
    /\ buyers[1].selected_sellers = {sellers[1].id}
    /\ sellers[1].selected_buyers = {buyers[1].id}
    /\ buyers[2].selected_sellers = {}
    /\ sellers[2].selected_buyers = {}

C14_StatisticsAddUp ==
    (pc = "reported" /\ matches # <<>>) =>
        /\ stats.total_matches = Len(matches)
        /\ stats.scheduled_meetings = Len(scheduled_meetings)
        /\ stats.scheduled_meetings + stats.unscheduled_matches = stats.total_matches
        /\ LET gap == stats.scheduling_efficiency * stats.total_matches
                          - 100 * 100 * stats.scheduled_meetings
           IN  2 * gap <= stats.total_matches /\ -2 * gap <= stats.total_matches
        /\ 0 <= stats.scheduled_meetings
        /\ stats.scheduled_meetings <= stats.total_matches

C14_Witness ==
    /\ pc = "reported"
    /\ matches # <<>>
    /\ stats.scheduled_meetings > 0
    /\ stats.unscheduled_matches > 0
    /\ stats.scheduling_efficiency % 100 # 0

\* ------------------------------------------------------------ determinism
\* C15 as stated: find_matches returns the same sequence of matches whatever
\* the iteration order of a set built from a selection list: a step of pass 2
\* leaves the match list that every iteration order of the seller's selection
\* set leads to.
C15_IterationOrderIrrelevant ==
    [][pc = "pass2" =>
          \A order \in Orders(sellers[idx].selected_buyers) :
              all_matches' = SellerChoices([all_matches |-> all_matches,
                                            buyer_meetings |-> buyer_meetings],
                                           buyers, sellers[idx], order).all_matches]_vars

\* C16: create_schedule called a second time on the same match objects and
\* the same slot list returns the meeting list it returned the first time; the
\* flags and slots the first run left on the matches change nothing.
C16_RerunReturnsSameMeetings ==
    (pc = "scheduled" /\ earlier # <<>>) =>
        scheduled_meetings = earlier[Len(earlier)]

C16_Witness ==
    /\ pc = "scheduled"
    /\ earlier # <<>>
    /\ Len(scheduled_meetings) >= 2
    /\ \E k \in 1..Len(matches) : matches[k].meeting_scheduled
    /\ \E k \in 1..Len(matches) : ~matches[k].meeting_scheduled

\* ------------------------------------------------------------- the scorer
\* a tag list without its order and its repetitions: the tags in a fixed order
TagsOf(tags) ==
    SelectSeq(<<"Equipment", "Wellness", "Technology">>, LAMBDA t : t \in Range(tags))

\* the sum of the five weights, over the denominator weights.den
WeightSum ==
    weights.interest_alignment + weights.investment_factor + weights.company_size
    + weights.facility_type + weights.existing_client

C18_WeightsUsedSumToOne ==
    (scored # NoScore) => WeightSum = weights.den

\* ------------------------------------------------------ type and priority
\* C19: every match is a double_match of priority 1, a seller_choice of
\* priority 2 or an ai_suggestion of priority 3, and a step of create_schedule
\* leaves the type and the priority of every match as they were.
C19_PriorityFixedByType ==
    [][/\ \A k \in 1..Len(matches') :
             <<matches'[k].match_type, matches'[k].priority>> \in
                 {<<"double_match", 1>>, <<"seller_choice", 2>>, <<"ai_suggestion", 3>>}
       /\ (pc \in {"matched", "scheduling"} /\ pc' \in {"scheduling", "scheduled"}) =>
             /\ Len(matches') = Len(matches)
             /\ \A k \in 1..Len(matches) :
                    /\ matches'[k].match_type = matches[k].match_type
                    /\ matches'[k].priority = matches[k].priority]_vars

C19_Witness ==
    /\ pc = "scheduled"
    /\ \E k \in 1..Len(matches) : matches[k].meeting_scheduled
    /\ CountType(matches, "double_match") > 0
    /\ CountType(matches, "seller_choice") > 0
    /\ CountType(matches, "ai_suggestion") > 0

\* ------------------------------------------------------------------ export
\* C20: export_schedule_csv returns the text "No meetings scheduled" for an
\* empty meeting list; otherwise it returns the header line followed by
\* exactly one line per meeting, line k + 1 being the row of meeting k.
C20_CsvOneLinePerMeeting ==
    (pc = "exported") =>
        IF scheduled_meetings = <<>>
        THEN csv = <<"No meetings scheduled">>
        ELSE /\ Len(csv) = Len(scheduled_meetings) + 1
             /\ csv[1] = CsvHeader
             /\ \A k \in 1..Len(scheduled_meetings) :
                    csv[k + 1] = CsvRow(scheduled_meetings[k], NEXO_BUYERS, NEXO_SELLERS)

C20_Witness ==
    /\ pc = "exported"
    /\ Len(scheduled_meetings) >= 2
    /\ Len(csv) = Len(scheduled_meetings) + 1
    /\ csv[2] = "2023-05-18,09:00,Marcos Aguade,Fitness Group,Charly Chagas,Fitness Emporium,Double Match,72.2,1"

\* ------------------------------------------------------------------ pass 2
\* the matches a step appended to the match list
Appended(before, after) == SubSeq(after, Len(before) + 1, Len(after))

\* C21: pass 2 visits the sellers in input order; visiting seller s it emits
\* one seller_choice match (b, s) for exactly the roster buyers b that s
\* selected, that pass 1 did not match with s and that hold fewer than 5
\* matches when s is visited, and nothing else.  So of the sellers that select
\* a buyer without being selected back, those earlier in the list are served
\* before those later in it.
C21_SellerChoiceExactlyWhen ==
    [][(pc = "pass2") =>
          LET seller == sellers[idx]
              new == Appended(all_matches, all_matches')
          IN  /\ SubSeq(all_matches', 1, Len(all_matches)) = all_matches
              /\ \A k \in 1..Len(new) :
                     /\ new[k].match_type = "seller_choice"
                     /\ new[k].priority = 2
                     /\ new[k].seller_id = seller.id
              /\ \A b \in RosterBuyerIds \cup seller.selected_buyers :
                     Cardinality({k \in 1..Len(new) : new[k].buyer_id = b}) =
                         IF /\ b \in RosterBuyerIds
                            /\ b \in seller.selected_buyers
                            /\ PairMatches(all_matches, b, seller.id) = {}
                            /\ Cardinality(MatchesOf(all_matches, b)) < 5
                         THEN 1 ELSE 0
              /\ \A b \in RosterBuyerIds : \A i, j \in 1..Len(sellers) :
                     (/\ i < j
                      /\ b \in sellers[i].selected_buyers
                      /\ b \in sellers[j].selected_buyers
                      /\ \E k \in PairMatches(all_matches', b, sellers[j].id) :
                             all_matches'[k].match_type = "seller_choice") =>
                         PairMatches(all_matches', b, sellers[i].id) # {}]_vars

\* a seller's selection was dropped: the buyer held 5 matches from the sellers
\* before it
C21_Witness ==
    /\ pc = "matched"
    /\ \E b \in RosterBuyerIds : \E j \in 1..Len(sellers) :
          /\ j > 5
          /\ b \in sellers[j].selected_buyers
          /\ PairMatches(matches, b, sellers[j].id) = {}
          /\ \A i \in 1..(j - 1) :
                 \E k \in PairMatches(matches, b, sellers[i].id) :
                     matches[k].match_type = "seller_choice"

\* ------------------------------------------------------------------ pass 3
\* the position of a seller id in the seller list
SellerPos(seller_id) == CHOOSE j \in 1..Len(sellers) : sellers[j].id = seller_id

SlotsHeld(meetings, buyer_id, seller_id) ==
    {meetings[i].time_slot : i \in {i \in 1..Len(meetings) :
        meetings[i].buyer_id = buyer_id \/ meetings[i].seller_id = seller_id}}

\* C23: create_schedule handles each match exactly once, in one pass over the
\* sorted list; a step keeps every meeting made so far, with its slot, and
\* appends at most one meeting, for the match it handles; it appends none
\* exactly when every slot of the slot list is held by the match's buyer or
\* by its seller at that moment.
C23_NoRevisit ==
    [][(pc = "scheduling") =>
          LET match == matches[sorted_matches[idx]]
              new == Appended(scheduled_meetings, scheduled_meetings')
              held == SlotsHeld(scheduled_meetings, match.buyer_id, match.seller_id)
          IN  /\ Range(sorted_matches) = 1..Len(matches)
              /\ Len(sorted_matches) = Len(matches)
              /\ sorted_matches' = sorted_matches
              /\ idx' = idx + 1
              /\ (pc' = "scheduled") = (idx = Len(sorted_matches))
              /\ SubSeq(scheduled_meetings', 1, Len(scheduled_meetings)) = scheduled_meetings
              /\ Len(new) <= 1
              /\ (new = <<>>) = (\A k \in 1..Len(time_slots) : time_slots[k].id \in held)
              /\ \A k \in 1..Len(new) :
                     /\ new[k].buyer_id = match.buyer_id
                     /\ new[k].seller_id = match.seller_id
                     /\ new[k].time_slot \notin held]_vars

\* a run that left a match without a meeting after placing others
C23_Witness ==
    /\ pc = "scheduled"
    /\ Len(time_slots) >= 2
    /\ Len(scheduled_meetings) >= 2
    /\ \E k \in 1..Len(matches) :
          /\ ~matches[k].meeting_scheduled
          /\ \A i \in 1..Len(time_slots) :
                 time_slots[i].id \in SlotsHeld(scheduled_meetings, matches[k].buyer_id,
                                                matches[k].seller_id)

\* ------------------------------------------------------------------ frame
\* C24: find_matches leaves the buyer and seller records it was given as they
\* are, and so does everything after it; create_schedule leaves the slot list
\* and the match list's length and order as they are, and changes a match
\* only when it places it, and then only its meeting_scheduled and time_slot.
C24_OnlyFlagAndSlotChange ==
    [][/\ (pc # "idle") => (buyers' = buyers /\ sellers' = sellers)
       /\ (pc = "matched") => (matches' = matches)
       /\ (pc = "scheduling") =>
             /\ time_slots' = time_slots
             /\ Len(matches') = Len(matches)
             /\ \A k \in 1..Len(matches) :
                    \/ matches'[k] = matches[k]
                    \/ /\ k = sorted_matches[idx]
                       /\ Len(scheduled_meetings') = Len(scheduled_meetings) + 1
                       /\ matches'[k] =
                              [matches[k] EXCEPT
                                  !.meeting_scheduled = matches'[k].meeting_scheduled,
                                  !.time_slot = matches'[k].time_slot]]_vars

\* create_schedule has marked one match of an unsorted match list and left
\* another unmarked
C24_Witness ==
    /\ pc = "scheduled"
    /\ \E k \in 1..Len(matches) : matches[k].meeting_scheduled /\ matches[k].time_slot # NoSlot
    /\ \E k \in 1..Len(matches) : ~matches[k].meeting_scheduled
    /\ \E k \in 1..(Len(matches) - 1) :
          /\ matches[k].priority = matches[k + 1].priority
          /\ matches[k].compatibility_score < matches[k + 1].compatibility_score

\* ------------------------------------------------- identifiers not listed
\* the field of the person with the given id in a list of unique ids, and the
\* placeholder for an id the list does not hold
FieldOrUnknown(people, id, field) ==
    IF \E i \in 1..Len(people) : people[i].id = id
    THEN people[CHOOSE i \in 1..Len(people) : people[i].id = id][field]
    ELSE "Unknown"

\* C25: an identifier absent from the roster is never fatal.  find_matches
\* raises nothing over a roster with a buyer and a seller, whatever foreign
\* ids the selection lists hold, and every match it makes is between a roster
\* buyer and a roster seller.  create_schedule and export_schedule_csv, given
\* buyer and seller lists that lack a meeting's buyer or seller, run to the
\* end: a meeting is made as for listed ids, the names printed and the name
\* and company fields exported for the unlisted id are 'Unknown'.
C25_UnknownIdsNeverFatal ==
    /\ (error # NoError) => (buyers = <<>> \/ sellers = <<>>)
    /\ \A k \in 1..Len(all_matches) :
           /\ all_matches[k].buyer_id \in RosterBuyerIds
           /\ all_matches[k].seller_id \in RosterSellerIds
    /\ ScheduleStarted =>
           /\ Len(log) = Len(scheduled_meetings)
           /\ \A k \in 1..Len(log) :
                  /\ log[k].buyer_name = FieldOrUnknown(roster.buyers,
                                             scheduled_meetings[k].buyer_id, "name")
                  /\ log[k].seller_name = FieldOrUnknown(roster.sellers,
                                              scheduled_meetings[k].seller_id, "name")
    /\ (pc = "exported" /\ scheduled_meetings # <<>>) =>
           /\ Len(csv) = Len(scheduled_meetings) + 1
           /\ \A k \in 1..Len(scheduled_meetings) :
                  LET meeting == scheduled_meetings[k]
                  IN  csv[k + 1] =
                          meeting.date \o "," \o meeting.time
                          \o "," \o FieldOrUnknown(roster.buyers, meeting.buyer_id, "name")
                          \o "," \o FieldOrUnknown(roster.buyers, meeting.buyer_id, "company")
                          \o "," \o FieldOrUnknown(roster.sellers, meeting.seller_id, "name")
                          \o "," \o FieldOrUnknown(roster.sellers, meeting.seller_id, "company")
                          \o "," \o TitleCase(meeting.match_type)
                          \o "," \o Round1Text(meeting.compatibility_score)
                          \o "," \o ToString(meeting.priority)

\* selection lists held foreign ids, and the schedule of the matches was made
\* and exported with lists lacking the first buyer
C25_Witness ==
    /\ pc = "exported"
    /\ \E i \in 1..Len(buyers) : ~(buyers[i].selected_sellers \subseteq RosterSellerIds)
    /\ \E j \in 1..Len(sellers) : ~(sellers[j].selected_buyers \subseteq RosterBuyerIds)
    /\ Len(scheduled_meetings) >= 2
    /\ log[1] = [buyer_name |-> "Unknown", seller_name |-> "Charly Chagas"]
    /\ csv[2] = "2023-05-18,09:00,Unknown,Unknown,Charly Chagas,Fitness Emporium,Double Match,72.2,1"

\* ------------------------------------------------ two runs on one matcher
\* C26: the per-buyer meeting count belongs to one find_matches invocation.
\* Of two invocations on the same matcher and the same rosters, advancing in
\* any order, each returns exactly the match list one invocation returns
\* when nothing else runs (and raises on an empty list exactly as that one
\* does), whether the other has not begun, is under way or has returned.
C26_RunsDoNotInterfere ==
    LET alone == find_matches(buyers, sellers, set_order)
    IN  \A run \in DOMAIN frame :
            /\ frame[run].pc = "returned" => frame[run].returned = alone
            /\ frame[run].pc = "raised" => alone = <<>>
            /\ frame[run].pc \in {"pass2", "pass3", "summary"} =>
                   /\ Len(frame[run].all_matches) <= Len(alone)
                   /\ frame[run].all_matches = SubSeq(alone, 1, Len(frame[run].all_matches))

\* the second invocation has returned seller choices and suggestions while
\* the first, begun before it, is still in its pass 3
C26_Witness ==
    /\ pc = "twice"
    /\ frame[2].pc = "returned"
    /\ frame[1].pc = "pass3"
    /\ frame[1].idx = 2
    /\ \E k \in 1..Len(frame[2].returned) : frame[2].returned[k].match_type = "seller_choice"
    /\ \E k \in 1..Len(frame[2].returned) : frame[2].returned[k].match_type = "ai_suggestion"

\* ------------------------------------------------ types and selections
\* the roster buyer and the roster seller of a match
BuyerOf(match) == buyers[CHOOSE i \in 1..Len(buyers) : buyers[i].id = match.buyer_id]

SellerOf(match) == sellers[CHOOSE j \in 1..Len(sellers) : sellers[j].id = match.seller_id]

\* C27: the type of every match find_matches makes agrees with the selections
\* of its pair.  A double_match pair selected each other; a seller_choice pair
\* has the buyer in the seller's selected_buyers and the seller not in the
\* buyer's selected_sellers; an ai_suggestion pair never has the buyer in the
\* seller's selected_buyers.  A pair selected by its buyer alone has no type
\* of its own: its match, if it has one, is an ai_suggestion.
C27_TypeAgreesWithSelections ==
    \A k \in 1..Len(all_matches) :
        LET match == all_matches[k]
            sellerSelected == match.buyer_id \in SellerOf(match).selected_buyers
            buyerSelected == match.seller_id \in BuyerOf(match).selected_sellers
        IN  /\ match.match_type = "double_match" => (sellerSelected /\ buyerSelected)
            /\ match.match_type = "seller_choice" => (sellerSelected /\ ~buyerSelected)
            /\ match.match_type = "ai_suggestion" => ~sellerSelected
            /\ (buyerSelected /\ ~sellerSelected) => match.match_type = "ai_suggestion"

\* find_matches returned matches of the three types, one of them a suggestion
\* for a pair only the buyer selected, and left unmatched a pair only the
\* buyer selected
C27_Witness ==
    /\ pc = "matched"
    /\ \A t \in {"double_match", "seller_choice", "ai_suggestion"} : CountType(matches, t) > 0
    /\ \E k \in 1..Len(matches) :
          /\ matches[k].match_type = "ai_suggestion"
          /\ matches[k].seller_id \in BuyerOf(matches[k]).selected_sellers
    /\ \E i \in 1..Len(buyers) : \E j \in 1..Len(sellers) :
          /\ sellers[j].id \in buyers[i].selected_sellers
          /\ buyers[i].id \notin sellers[j].selected_buyers
          /\ PairMatches(matches, buyers[i].id, sellers[j].id) = {}

\* ------------------------------------------------ matches per buyer
\* the sellers of the roster mutually selected with a roster buyer
MutualSellers(buyer) ==
    {j \in 1..Len(sellers) : /\ buyer.id \in sellers[j].selected_buyers
                             /\ sellers[j].id \in buyer.selected_sellers}

MatchesOfSeller(ms, seller_id) == {i \in 1..Len(ms) : ms[i].seller_id = seller_id}

\* the distinct slot ids of a slot list
SlotIds(slots) == {slots[k].id : k \in 1..Len(slots)}

\* C29: create_schedule returns a meeting for every match whenever, for each
\* match (b, s), the slot list holds at least
\* (matches of b) + (matches of s) - 1 distinct slot ids.  One slot hosts
\* several meetings of pairwise different buyers and sellers, so there can be
\* more meetings than slots.
C29_EnoughSlotsScheduleAll ==
    (/\ pc \in {"scheduled", "reported", "exported"}
     /\ \A k \in 1..Len(matches) :
           Cardinality(SlotIds(time_slots)) >=
               Cardinality(MatchesOf(matches, matches[k].buyer_id))
               + Cardinality(MatchesOfSeller(matches, matches[k].seller_id)) - 1)
    => /\ Len(scheduled_meetings) = Len(matches)
       /\ \A k \in 1..Len(matches) :
              /\ matches[k].meeting_scheduled
              /\ \E n \in 1..Len(scheduled_meetings) :
                    /\ scheduled_meetings[n].buyer_id = matches[k].buyer_id
                    /\ scheduled_meetings[n].seller_id = matches[k].seller_id
                    /\ scheduled_meetings[n].time_slot = matches[k].time_slot

\* every match of two buyers with two sellers each was given a meeting: four
\* meetings in three slots
C29_Witness ==
    /\ pc = "scheduled"
    /\ Len(buyers) = 2
    /\ Len(matches) = 4
    /\ Len(time_slots) = 3
    /\ \A k \in 1..Len(matches) :
           Cardinality(MatchesOf(matches, matches[k].buyer_id))
           + Cardinality(MatchesOfSeller(matches, matches[k].seller_id)) - 1 = 3
    /\ Len(scheduled_meetings) = 4
    /\ \E m, n \in 1..4 : m # n /\ scheduled_meetings[m].time_slot = scheduled_meetings[n].time_slot

\* ------------------------------------------------ schedules made again
\* C30: after any sequence of create_schedule runs on the same Match objects,
\* with the same or with different slot lists, a match has
\* meeting_scheduled = True exactly when the latest run returned a meeting for
\* it, and its time_slot is that meeting's slot id, None when it has no
\* meeting.  (Stated as claimed; a run never clears the flag or the slot an
\* earlier run wrote.)
C30_FlagsFollowLatestRun ==
    pc = "scheduled" =>
        \A k \in 1..Len(matches) :
            LET mine == {n \in 1..Len(scheduled_meetings) :
                            /\ scheduled_meetings[n].buyer_id = matches[k].buyer_id
                            /\ scheduled_meetings[n].seller_id = matches[k].seller_id}
            IN  /\ matches[k].meeting_scheduled <=> (mine # {})
                /\ mine = {} => matches[k].time_slot = NoSlot
                /\ \A n \in mine : matches[k].time_slot = scheduled_meetings[n].time_slot

====
